---- MODULE Spec2Model ----
(***************************************************************************)
(* Kuizmo API: the in-memory Database of app/data.py and the FastAPI       *)
(* request handlers of app/main.py, with the pydantic request schemas of   *)
(* app/schemas.py.                                                         *)
(*                                                                         *)
(* Python dicts keep insertion order; courses, modules and quiz_questions  *)
(* are therefore sequences of records in insertion order (attempt_quiz     *)
(* and the list handlers observe that order).  progress_records is only    *)
(* ever looked up by key or visited record by record, so it is a function  *)
(* from the (user_id, course_id) keys it holds to the records.             *)
(***************************************************************************)
EXTENDS Integers, Sequences, FiniteSets, TLC

VARIABLES
    db,          \* data.db, the process-wide Database
    pre,         \* data.db as it was before the last operation
    op,          \* the last operation and its arguments
    ret,         \* what the last operation returned or raised
    left,        \* number of operations still to come in this run
    created,     \* per entity type, the ids returned by its creations, in order
    first_done,  \* per progress record, module ids in order of first completion
    since_done   \* the same, counted anew for an id that delete_module removed

vars == <<db, pre, op, ret, left, created, first_done, since_done>>

(* ------------------------------ bounds -------------------------------- *)
\* Largest ids callers pass (the seed creates course 1, modules 1-2, questions 1-2).
MaxCourseId == 2
MaxModuleId == 3
MaxQuestionId == 3
\* Longest answer list submitted to attempt_quiz.
MaxAnswers == 2
\* Number of operations (store calls or HTTP requests) after construction;
\* the long runs take one more.
MaxSteps == 3
LongRun == MaxSteps + 1

Users == {"u1", "u2"}
CourseIds == 1 .. MaxCourseId
ModuleIds == 1 .. MaxModuleId
QuestionIds == 1 .. MaxQuestionId

\* Request bodies.  Long seed texts are abbreviated; the fields are opaque.
CoursePayloads == {[title |-> "X", description |-> "Y", tags |-> <<"ai">>]}
ModulePayloads == {[title |-> "M", content |-> "C"]}
OptionLists == {<<"A">>, <<"A", "B">>}
AnswerIndexes == -1 .. 2
QuestionPayloads ==
    {p \in [prompt : {"P"}, options : OptionLists, answer_index : AnswerIndexes] :
        Len(p.options) = 2 \/ p.answer_index = 0}
\* Question contents passed straight to the store, which validates nothing.
StoredQuestionPayloads ==
    {[prompt |-> "P", options |-> <<"A", "B">>, answer_index |-> 0]}
SubmittedAnswers == {1, 2}
AnswerLists == UNION {[1 .. n -> SubmittedAnswers] : n \in 0 .. MaxAnswers}

(* --------------------------- dict helpers ----------------------------- *)
\* dict of records keyed by their id, as an insertion-ordered sequence
Keys(d) == {d[i].id : i \in 1 .. Len(d)}

DictGet(d, k) == d[CHOOSE i \in 1 .. Len(d) : d[i].id = k]

\* d[k] = e : an existing key keeps its position, a new key goes last
DictSet(d, e) ==
    IF e.id \in Keys(d)
    THEN [i \in 1 .. Len(d) |-> IF d[i].id = e.id THEN e ELSE d[i]]
    ELSE Append(d, e)

\* d.pop(k, None)
DictPop(d, k) == SelectSeq(d, LAMBDA e : e.id # k)

\* progress_records without the keys in ks
Without(f, ks) == [k \in (DOMAIN f) \ ks |-> f[k]]

\* progress_records[k] = v
WithKey(f, k, v) == [x \in (DOMAIN f) \cup {k} |-> IF x = k THEN v ELSE f[x]]

\* x in list
InList(x, s) == \E i \in 1 .. Len(s) : s[i] = x

\* list.remove(x): deletes the first occurrence only
ListRemove(s, x) ==
    LET i == CHOOSE j \in 1 .. Len(s) : s[j] = x /\ \A k \in 1 .. (j - 1) : s[k] # x
    IN  SubSeq(s, 1, i - 1) \o SubSeq(s, i + 1, Len(s))

None == [none |-> TRUE]
KeyError == [raised |-> "KeyError"]

(* ------------------------ Database (data.py) -------------------------- *)
Result(d, r) == [db |-> d, ret |-> r]

EmptyDatabase ==
    [course_counter |-> 0, module_counter |-> 0, question_counter |-> 0,
     courses |-> <<>>, modules |-> <<>>, quiz_questions |-> <<>>,
     progress_records |-> [k \in {} |-> None]]

\* `tags or []` is the identity on the lists every caller passes.
db_create_course(d, title, description, tags) ==
    LET n == d.course_counter + 1
        course == [id |-> n, title |-> title, description |-> description,
                   tags |-> tags]
    IN  Result([d EXCEPT !.course_counter = n,
                         !.courses = DictSet(@, course)], course)

db_update_course(d, course_id, title, description, tags) ==
    IF course_id \notin Keys(d.courses) THEN Result(d, KeyError)
    ELSE LET course == [DictGet(d.courses, course_id) EXCEPT
                           !.title = title, !.description = description,
                           !.tags = tags]
         IN  Result([d EXCEPT !.courses = DictSet(@, course)], course)

\* Faulty variant (C1 rules it out): the progress records are forgotten.
db_delete_course_keeps_progress(d, course_id) ==
    Result([d EXCEPT
              !.courses = DictPop(@, course_id),
              !.modules = SelectSeq(@, LAMBDA m : m.course_id # course_id),
              !.quiz_questions = SelectSeq(@, LAMBDA q : q.course_id # course_id)],
           None)

\* Variant (C9 as amended rules it out): nothing is cascaded for an absent id.
db_delete_course_if_present(d, course_id) ==
    IF course_id \notin Keys(d.courses) THEN Result(d, None)
    ELSE Result([d EXCEPT
              !.courses = DictPop(@, course_id),
              !.modules = SelectSeq(@, LAMBDA m : m.course_id # course_id),
              !.quiz_questions = SelectSeq(@, LAMBDA q : q.course_id # course_id),
              !.progress_records =
                  Without(@, {k \in DOMAIN @ : k[2] = course_id})],
           None)

db_delete_course(d, course_id) ==
    Result([d EXCEPT
              !.courses = DictPop(@, course_id),
              !.modules = SelectSeq(@, LAMBDA m : m.course_id # course_id),
              !.quiz_questions = SelectSeq(@, LAMBDA q : q.course_id # course_id),
              !.progress_records =
                  Without(@, {k \in DOMAIN @ : k[2] = course_id})],
           None)

\* Faulty variant (C2 rules it out): the id is the number of modules held, plus one.
db_create_module_by_count(d, course_id, title, content) ==
    LET n == Len(d.modules) + 1
        module == [id |-> n, course_id |-> course_id, title |-> title,
                   content |-> content]
    IN  Result([d EXCEPT !.module_counter = n,
                         !.modules = DictSet(@, module)], module)

db_create_module(d, course_id, title, content) ==
    LET n == d.module_counter + 1
        module == [id |-> n, course_id |-> course_id, title |-> title,
                   content |-> content]
    IN  Result([d EXCEPT !.module_counter = n,
                         !.modules = DictSet(@, module)], module)

db_update_module(d, module_id, title, content) ==
    IF module_id \notin Keys(d.modules) THEN Result(d, KeyError)
    ELSE LET module == [DictGet(d.modules, module_id) EXCEPT
                           !.title = title, !.content = content]
         IN  Result([d EXCEPT !.modules = DictSet(@, module)], module)

\* Faulty variant (C3 rules it out): only the records of the module's own
\* course are cleaned.
db_delete_module_own_course(d, module_id) ==
    IF module_id \notin Keys(d.modules) THEN Result(d, None)
    ELSE Result([d EXCEPT
                   !.modules = DictPop(@, module_id),
                   !.progress_records =
                       [k \in DOMAIN @ |->
                          IF /\ k[2] = DictGet(d.modules, module_id).course_id
                             /\ InList(module_id, @[k].completed_module_ids)
                          THEN [@[k] EXCEPT !.completed_module_ids =
                                               ListRemove(@, module_id)]
                          ELSE @[k]]],
                None)

db_delete_module(d, module_id) ==
    IF module_id \notin Keys(d.modules) THEN Result(d, None)
    ELSE Result([d EXCEPT
                   !.modules = DictPop(@, module_id),
                   !.progress_records =
                       [k \in DOMAIN @ |->
                          IF InList(module_id, @[k].completed_module_ids)
                          THEN [@[k] EXCEPT !.completed_module_ids =
                                               ListRemove(@, module_id)]
                          ELSE @[k]]],
                None)

db_create_quiz_question(d, course_id, prompt, options, answer_index) ==
    LET n == d.question_counter + 1
        question == [id |-> n, course_id |-> course_id, prompt |-> prompt,
                     options |-> options, answer_index |-> answer_index]
    IN  Result([d EXCEPT !.question_counter = n,
                         !.quiz_questions = DictSet(@, question)], question)

db_update_quiz_question(d, question_id, prompt, options, answer_index) ==
    IF question_id \notin Keys(d.quiz_questions) THEN Result(d, KeyError)
    ELSE LET question == [DictGet(d.quiz_questions, question_id) EXCEPT
                             !.prompt = prompt, !.options = options,
                             !.answer_index = answer_index]
         IN  Result([d EXCEPT !.quiz_questions = DictSet(@, question)], question)

db_delete_quiz_question(d, question_id) ==
    Result([d EXCEPT !.quiz_questions = DictPop(@, question_id)], None)

\* progress_records.get(key), created empty when absent
get_or_create(d, user_id, course_id) ==
    IF <<user_id, course_id>> \in DOMAIN d.progress_records
    THEN d.progress_records[<<user_id, course_id>>]
    ELSE [user_id |-> user_id, course_id |-> course_id,
          completed_module_ids |-> <<>>]

\* Faulty variant (C4 rules it out): the id is appended without the
\* membership test.
db_record_module_completion_always_appends(d, user_id, course_id, module_id) ==
    LET found == get_or_create(d, user_id, course_id)
        progress == [found EXCEPT !.completed_module_ids = Append(@, module_id)]
    IN  Result([d EXCEPT !.progress_records =
                             WithKey(@, <<user_id, course_id>>, progress)],
               progress)

db_record_module_completion(d, user_id, course_id, module_id) ==
    LET found == get_or_create(d, user_id, course_id)
        progress ==
            IF ~InList(module_id, found.completed_module_ids)
            THEN [found EXCEPT !.completed_module_ids = Append(@, module_id)]
            ELSE found
    IN  Result([d EXCEPT !.progress_records =
                             WithKey(@, <<user_id, course_id>>, progress)],
               progress)

\* Faulty variant (C5 rules it out): a fresh empty record replaces the one held.
db_get_progress_fresh(d, user_id, course_id) ==
    LET progress == [user_id |-> user_id, course_id |-> course_id,
                     completed_module_ids |-> <<>>]
    IN  Result([d EXCEPT !.progress_records =
                             WithKey(@, <<user_id, course_id>>, progress)],
               progress)

db_get_progress(d, user_id, course_id) ==
    LET progress == get_or_create(d, user_id, course_id)
    IN  Result([d EXCEPT !.progress_records =
                             WithKey(@, <<user_id, course_id>>, progress)],
               progress)

\* Database._seed, run by Database.__init__: the five calls' results in order
seed(d) ==
    LET d1 == db_create_course(d, "Neural Networks Primer", "seed description",
                               <<"machine-learning", "ai", "beginner">>)
        c  == d1.ret.id
        d2 == db_create_module(d1.db, c, "Perceptron Intuition", "seed content 1")
        d3 == db_create_module(d2.db, c, "Activation Functions", "seed content 2")
        d4 == db_create_quiz_question(d3.db, c, "seed prompt 1",
                  <<"Sigmoid", "Tanh", "ReLU", "Softmax">>, 2)
        d5 == db_create_quiz_question(d4.db, c, "seed prompt 2",
                  <<"Linearly separable data", "Non-linear boundaries",
                    "High bias", "Overfitting">>, 1)
    IN  <<d1, d2, d3, d4, d5>>

\* db = Database()
Database == seed(EmptyDatabase)[5].db

(* ------------------------- history variables -------------------------- *)
NoEvent == [kind |-> "none"]
Creation(type, id) == [kind |-> "create", type |-> type, id |-> id]
Completion(u, c, m) == [kind |-> "complete", key |-> <<u, c>>, module_id |-> m]
Read(u, c) == [kind |-> "read", key |-> <<u, c>>]
CourseDeletion(c) == [kind |-> "delete_course", course_id |-> c]
ModuleDeletion(m) == [kind |-> "delete_module", module_id |-> m]

AppendNew(s, x) == IF InList(x, s) THEN s ELSE Append(s, x)

Completed(f, e) ==
    WithKey(f, e.key, AppendNew(IF e.key \in DOMAIN f THEN f[e.key] ELSE <<>>,
                                e.module_id))

Touched(f, e) == IF e.key \in DOMAIN f THEN f ELSE WithKey(f, e.key, <<>>)

Dropped(f, e) == Without(f, {k \in DOMAIN f : k[2] = e.course_id})

Forgotten(f, e) ==
    [k \in DOMAIN f |-> SelectSeq(f[k], LAMBDA x : x # e.module_id)]

History(e) ==
    /\ created' = IF e.kind = "create"
                  THEN [created EXCEPT ![e.type] = Append(@, e.id)]
                  ELSE created
    /\ first_done' = CASE e.kind = "complete" -> Completed(first_done, e)
                       [] e.kind = "read" -> Touched(first_done, e)
                       [] e.kind = "delete_course" -> Dropped(first_done, e)
                       [] OTHER -> first_done
    /\ since_done' = CASE e.kind = "complete" -> Completed(since_done, e)
                       [] e.kind = "read" -> Touched(since_done, e)
                       [] e.kind = "delete_course" -> Dropped(since_done, e)
                       [] e.kind = "delete_module" -> Forgotten(since_done, e)
                       [] OTHER -> since_done

\* Nothing is being served: the last result has been handed to its caller.
Waiting == [name |-> "waiting"]

\* One operation, served whole (single-threaded, synchronous): o is the call,
\* r its result, e what the history records.
Step(o, r, e) ==
    /\ left > 0
    /\ left' = left - 1
    /\ pre' = db
    /\ op' = o
    /\ db' = r.db
    /\ ret' = r.ret
    /\ History(e)

Constructed ==
    /\ db = Database
    /\ pre = Database
    /\ op = Waiting
    /\ ret = None
    /\ created = [course |-> <<seed(EmptyDatabase)[1].ret.id>>,
                  module |-> <<seed(EmptyDatabase)[2].ret.id,
                               seed(EmptyDatabase)[3].ret.id>>,
                  question |-> <<seed(EmptyDatabase)[4].ret.id,
                                 seed(EmptyDatabase)[5].ret.id>>]
    /\ first_done = [k \in {} |-> <<>>]
    /\ since_done = [k \in {} |-> <<>>]

Init == Constructed /\ left = MaxSteps

InitLong == Constructed /\ left = LongRun

\* The result is handed over; the next operation starts from here.
Return ==
    /\ op # Waiting
    /\ op' = Waiting
    /\ pre' = db
    /\ ret' = None
    /\ UNCHANGED <<db, left, created, first_done, since_done>>

(* ------------------- calls on the Database (data.py) ------------------ *)
Call_create_course ==
    /\ op = Waiting
    /\ \E p \in CoursePayloads :
            LET r == db_create_course(db, p.title, p.description, p.tags)
            IN  Step([name |-> "db.create_course", payload |-> p], r,
                     Creation("course", r.ret.id))

Call_update_course ==
    /\ op = Waiting
    /\ \E c \in CourseIds, p \in CoursePayloads :
            Step([name |-> "db.update_course", course_id |-> c, payload |-> p],
                 db_update_course(db, c, p.title, p.description, p.tags), NoEvent)

Call_delete_course ==
    /\ op = Waiting
    /\ \E c \in CourseIds :
            Step([name |-> "db.delete_course", course_id |-> c],
                 db_delete_course(db, c), CourseDeletion(c))

Call_create_module ==
    /\ op = Waiting
    /\ \E c \in CourseIds, p \in ModulePayloads :
            LET r == db_create_module(db, c, p.title, p.content)
            IN  Step([name |-> "db.create_module", course_id |-> c, payload |-> p],
                     r, Creation("module", r.ret.id))

Call_update_module ==
    /\ op = Waiting
    /\ \E m \in ModuleIds, p \in ModulePayloads :
            Step([name |-> "db.update_module", module_id |-> m, payload |-> p],
                 db_update_module(db, m, p.title, p.content), NoEvent)

Call_delete_module ==
    /\ op = Waiting
    /\ \E m \in ModuleIds :
            Step([name |-> "db.delete_module", module_id |-> m],
                 db_delete_module(db, m),
                 IF m \in Keys(db.modules) THEN ModuleDeletion(m) ELSE NoEvent)

Call_create_quiz_question ==
    /\ op = Waiting
    /\ \E c \in CourseIds, p \in StoredQuestionPayloads :
            LET r == db_create_quiz_question(db, c, p.prompt, p.options,
                                             p.answer_index)
            IN  Step([name |-> "db.create_quiz_question", course_id |-> c,
                      payload |-> p], r, Creation("question", r.ret.id))

Call_update_quiz_question ==
    /\ op = Waiting
    /\ \E q \in QuestionIds, p \in StoredQuestionPayloads :
            Step([name |-> "db.update_quiz_question", question_id |-> q,
                  payload |-> p],
                 db_update_quiz_question(db, q, p.prompt, p.options, p.answer_index),
                 NoEvent)

Call_delete_quiz_question ==
    /\ op = Waiting
    /\ \E q \in QuestionIds :
            Step([name |-> "db.delete_quiz_question", question_id |-> q],
                 db_delete_quiz_question(db, q), NoEvent)

Call_record_module_completion ==
    /\ op = Waiting
    /\ \E u \in Users, c \in CourseIds, m \in ModuleIds :
            Step([name |-> "db.record_module_completion", user_id |-> u,
                  course_id |-> c, module_id |-> m],
                 db_record_module_completion(db, u, c, m), Completion(u, c, m))

Call_get_progress ==
    /\ op = Waiting
    /\ \E u \in Users, c \in CourseIds :
            Step([name |-> "db.get_progress", user_id |-> u, course_id |-> c],
                 db_get_progress(db, u, c), Read(u, c))

Next ==
    \/ Call_create_course
    \/ Call_update_course
    \/ Call_delete_course
    \/ Call_create_module
    \/ Call_update_module
    \/ Call_delete_module
    \/ Call_create_quiz_question
    \/ Call_update_quiz_question
    \/ Call_delete_quiz_question
    \/ Call_record_module_completion
    \/ Call_get_progress
    \/ Return

\* calls on the Database, MaxSteps of them
Spec == Init /\ [][Next]_vars

\* calls on the Database, one more
SpecLong == InitLong /\ [][Next]_vars

(* -------------------- request schemas (schemas.py) -------------------- *)
\* QuizQuestionBase: options has min_length 2, answer_index has ge 0
QuizQuestionBase(payload) ==
    Len(payload.options) >= 2 /\ payload.answer_index >= 0

(* ----------------------- HTTP handlers (main.py) ---------------------- *)
HTTPException(status_code, detail) ==
    [status |-> status_code, detail |-> detail]

Response(status_code, body) == [status |-> status_code, body |-> body]

\* FastAPI's answer to a request that fails its schema or Path(...) constraint;
\* the handler is not called.
RequestValidationError == HTTPException(422, "validation error")

_ensure_course_exists(d, course_id) == course_id \in Keys(d.courses)

CourseNotFound == HTTPException(404, "Course not found")

\* the questions/modules of one course, in dict order
OfCourse(entities, course_id) ==
    SelectSeq(entities, LAMBDA e : e.course_id = course_id)

health(d) == Result(d, Response(200, [status |-> "ok"]))

list_courses(d) == Result(d, Response(200, d.courses))

create_course(d, payload) ==
    LET r == db_create_course(d, payload.title, payload.description, payload.tags)
    IN  Result(r.db, Response(201, r.ret))

get_course(d, course_id) ==
    IF ~(course_id > 0) THEN Result(d, RequestValidationError)
    ELSE IF course_id \notin Keys(d.courses) THEN Result(d, CourseNotFound)
    ELSE Result(d, Response(200, DictGet(d.courses, course_id)))

update_course(d, course_id, payload) ==
    IF course_id \notin Keys(d.courses) THEN Result(d, CourseNotFound)
    ELSE LET r == db_update_course(d, course_id, payload.title,
                                   payload.description, payload.tags)
         IN  Result(r.db, Response(200, r.ret))

delete_course(d, course_id) ==
    IF course_id \notin Keys(d.courses) THEN Result(d, CourseNotFound)
    ELSE Result(db_delete_course(d, course_id).db, Response(204, None))

list_modules(d, course_id) ==
    IF ~_ensure_course_exists(d, course_id) THEN Result(d, CourseNotFound)
    ELSE Result(d, Response(200, OfCourse(d.modules, course_id)))

create_module(d, course_id, payload) ==
    IF ~_ensure_course_exists(d, course_id) THEN Result(d, CourseNotFound)
    ELSE LET r == db_create_module(d, course_id, payload.title, payload.content)
         IN  Result(r.db, Response(201, r.ret))

\* Faulty variant (C10 rules it out): the module's course is not compared.
get_module_any_course(d, course_id, module_id) ==
    IF ~_ensure_course_exists(d, course_id) THEN Result(d, CourseNotFound)
    ELSE IF module_id \notin Keys(d.modules)
    THEN Result(d, HTTPException(404, "Module not found"))
    ELSE Result(d, Response(200, DictGet(d.modules, module_id)))

get_module(d, course_id, module_id) ==
    IF ~_ensure_course_exists(d, course_id) THEN Result(d, CourseNotFound)
    ELSE IF \/ module_id \notin Keys(d.modules)
            \/ DictGet(d.modules, module_id).course_id # course_id
    THEN Result(d, HTTPException(404, "Module not found"))
    ELSE Result(d, Response(200, DictGet(d.modules, module_id)))

update_module(d, course_id, module_id, payload) ==
    LET g == get_module(d, course_id, module_id)
    IN  IF g.ret.status # 200 THEN g
        ELSE LET r == db_update_module(d, g.ret.body.id, payload.title,
                                       payload.content)
             IN  Result(r.db, Response(200, r.ret))

delete_module(d, course_id, module_id) ==
    LET g == get_module(d, course_id, module_id)
    IN  IF g.ret.status # 200 THEN g
        ELSE Result(db_delete_module(d, module_id).db, Response(204, None))

list_quiz_questions(d, course_id) ==
    IF ~_ensure_course_exists(d, course_id) THEN Result(d, CourseNotFound)
    ELSE Result(d, Response(200, OfCourse(d.quiz_questions, course_id)))

\* Faulty variant (C6 rules it out): > in place of >=.
create_quiz_question_off_by_one(d, course_id, payload) ==
    IF ~QuizQuestionBase(payload) THEN Result(d, RequestValidationError)
    ELSE IF ~_ensure_course_exists(d, course_id) THEN Result(d, CourseNotFound)
    ELSE IF payload.answer_index > Len(payload.options)
    THEN Result(d, HTTPException(422, "answer_index out of range"))
    ELSE LET r == db_create_quiz_question(d, course_id, payload.prompt,
                      payload.options, payload.answer_index)
         IN  Result(r.db, Response(201, r.ret))

create_quiz_question(d, course_id, payload) ==
    IF ~QuizQuestionBase(payload) THEN Result(d, RequestValidationError)
    ELSE IF ~_ensure_course_exists(d, course_id) THEN Result(d, CourseNotFound)
    ELSE IF payload.answer_index >= Len(payload.options)
    THEN Result(d, HTTPException(422, "answer_index out of range"))
    ELSE LET r == db_create_quiz_question(d, course_id, payload.prompt,
                      payload.options, payload.answer_index)
         IN  Result(r.db, Response(201, r.ret))

_get_quiz_question(d, course_id, question_id) ==
    IF \/ question_id \notin Keys(d.quiz_questions)
       \/ DictGet(d.quiz_questions, question_id).course_id # course_id
    THEN Result(d, HTTPException(404, "Quiz question not found"))
    ELSE Result(d, Response(200, DictGet(d.quiz_questions, question_id)))

update_quiz_question(d, course_id, question_id, payload) ==
    LET g == _get_quiz_question(d, course_id, question_id)
    IN  IF ~QuizQuestionBase(payload) THEN Result(d, RequestValidationError)
        ELSE IF g.ret.status # 200 THEN g
        ELSE IF payload.answer_index >= Len(payload.options)
        THEN Result(d, HTTPException(422, "answer_index out of range"))
        ELSE LET r == db_update_quiz_question(d, g.ret.body.id, payload.prompt,
                          payload.options, payload.answer_index)
             IN  Result(r.db, Response(200, r.ret))

delete_quiz_question(d, course_id, question_id) ==
    LET g == _get_quiz_question(d, course_id, question_id)
    IN  IF g.ret.status # 200 THEN g
        ELSE Result(db_delete_quiz_question(d, question_id).db,
                    Response(204, None))

\* the loop over zip(questions, answers), from position i on
RECURSIVE scoring_loop(_, _, _, _)
scoring_loop(questions, answers, i, acc) ==
    IF i > Len(questions) \/ i > Len(answers) THEN acc
    ELSE scoring_loop(questions, answers, i + 1,
             IF answers[i] = questions[i].answer_index
             THEN [score |-> acc.score + 1,
                   correct_question_ids |->
                       Append(acc.correct_question_ids, questions[i].id)]
             ELSE acc)

\* Faulty variant (C7 rules it out): the questions of every course are scored.
attempt_quiz_all_courses(d, course_id, answers) ==
    LET questions == d.quiz_questions
        scored == scoring_loop(questions, answers, 1,
                      [score |-> 0, correct_question_ids |-> <<>>])
    IN  IF ~_ensure_course_exists(d, course_id) THEN Result(d, CourseNotFound)
        ELSE IF questions = <<>>
        THEN Result(d, HTTPException(400, "No quiz questions available"))
        ELSE IF Len(answers) # Len(questions)
        THEN Result(d, HTTPException(400, "Answer count mismatch"))
        ELSE Result(d, Response(200,
                 [score |-> scored.score,
                  total |-> Len(questions),
                  correct_question_ids |-> scored.correct_question_ids]))

attempt_quiz(d, course_id, answers) ==
    LET questions == OfCourse(d.quiz_questions, course_id)
        scored == scoring_loop(questions, answers, 1,
                      [score |-> 0, correct_question_ids |-> <<>>])
    IN  IF ~_ensure_course_exists(d, course_id) THEN Result(d, CourseNotFound)
        ELSE IF questions = <<>>
        THEN Result(d, HTTPException(400, "No quiz questions available"))
        ELSE IF Len(answers) # Len(questions)
        THEN Result(d, HTTPException(400, "Answer count mismatch"))
        ELSE Result(d, Response(200,
                 [score |-> scored.score,
                  total |-> Len(questions),
                  correct_question_ids |-> scored.correct_question_ids]))

\* Faulty variant (C8 rules it out): the record is fetched before the course
\* is looked up.
read_progress_fetch_first(d, course_id, user_id) ==
    LET r == db_get_progress(d, user_id, course_id)
    IN  IF ~_ensure_course_exists(r.db, course_id)
        THEN Result(r.db, CourseNotFound)
        ELSE Result(r.db, Response(200, r.ret))

read_progress(d, course_id, user_id) ==
    IF ~_ensure_course_exists(d, course_id) THEN Result(d, CourseNotFound)
    ELSE LET r == db_get_progress(d, user_id, course_id)
         IN  Result(r.db, Response(200, r.ret))

update_progress(d, course_id, user_id, module_id) ==
    LET g == get_module(d, course_id, module_id)
    IN  IF g.ret.status # 200 THEN g
        ELSE LET r == db_record_module_completion(d, user_id, course_id,
                                                  g.ret.body.id)
             IN  Result(r.db, Response(200, r.ret))

(* --------------------------- HTTP requests ---------------------------- *)
\* what the history records of a request, given that it succeeded
IfOk(r, e) == IF r.ret.status \in {200, 201, 204} THEN e ELSE NoEvent

Http_health ==
    /\ op = Waiting
    /\ Step([name |-> "GET /health"], health(db), NoEvent)

Http_list_courses ==
    /\ op = Waiting
    /\ Step([name |-> "GET /courses"], list_courses(db), NoEvent)

Http_create_course ==
    /\ op = Waiting
    /\ \E p \in CoursePayloads :
            LET r == create_course(db, p)
            IN  Step([name |-> "POST /courses", payload |-> p], r,
                     IfOk(r, Creation("course", r.ret.body.id)))

Http_get_course ==
    /\ op = Waiting
    /\ \E c \in {0} \cup CourseIds :
            Step([name |-> "GET /courses/{course_id}", course_id |-> c],
                 get_course(db, c), NoEvent)

Http_update_course ==
    /\ op = Waiting
    /\ \E c \in CourseIds, p \in CoursePayloads :
            Step([name |-> "PUT /courses/{course_id}", course_id |-> c,
                  payload |-> p], update_course(db, c, p), NoEvent)

Http_delete_course ==
    /\ op = Waiting
    /\ \E c \in CourseIds :
            LET r == delete_course(db, c)
            IN  Step([name |-> "DELETE /courses/{course_id}", course_id |-> c], r,
                     IfOk(r, CourseDeletion(c)))

Http_list_modules ==
    /\ op = Waiting
    /\ \E c \in CourseIds :
            Step([name |-> "GET /courses/{course_id}/modules", course_id |-> c],
                 list_modules(db, c), NoEvent)

Http_create_module ==
    /\ op = Waiting
    /\ \E c \in CourseIds, p \in ModulePayloads :
            LET r == create_module(db, c, p)
            IN  Step([name |-> "POST /courses/{course_id}/modules",
                      course_id |-> c, payload |-> p], r,
                     IfOk(r, Creation("module", r.ret.body.id)))

Http_get_module ==
    /\ op = Waiting
    /\ \E c \in CourseIds, m \in ModuleIds :
            Step([name |-> "GET /courses/{course_id}/modules/{module_id}",
                  course_id |-> c, module_id |-> m], get_module(db, c, m), NoEvent)

Http_update_module ==
    /\ op = Waiting
    /\ \E c \in CourseIds, m \in ModuleIds, p \in ModulePayloads :
            Step([name |-> "PUT /courses/{course_id}/modules/{module_id}",
                  course_id |-> c, module_id |-> m, payload |-> p],
                 update_module(db, c, m, p), NoEvent)

Http_delete_module ==
    /\ op = Waiting
    /\ \E c \in CourseIds, m \in ModuleIds :
            LET r == delete_module(db, c, m)
            IN  Step([name |-> "DELETE /courses/{course_id}/modules/{module_id}",
                      course_id |-> c, module_id |-> m], r,
                     IfOk(r, ModuleDeletion(m)))

Http_list_quiz_questions ==
    /\ op = Waiting
    /\ \E c \in CourseIds :
            Step([name |-> "GET /courses/{course_id}/quizzes", course_id |-> c],
                 list_quiz_questions(db, c), NoEvent)

Http_create_quiz_question ==
    /\ op = Waiting
    /\ \E c \in CourseIds, p \in QuestionPayloads :
            LET r == create_quiz_question(db, c, p)
            IN  Step([name |-> "POST /courses/{course_id}/quizzes",
                      course_id |-> c, payload |-> p], r,
                     IfOk(r, Creation("question", r.ret.body.id)))

Http_update_quiz_question ==
    /\ op = Waiting
    /\ \E c \in CourseIds, q \in QuestionIds, p \in QuestionPayloads :
            Step([name |-> "PUT /courses/{course_id}/quizzes/{question_id}",
                  course_id |-> c, question_id |-> q, payload |-> p],
                 update_quiz_question(db, c, q, p), NoEvent)

Http_delete_quiz_question ==
    /\ op = Waiting
    /\ \E c \in CourseIds, q \in QuestionIds :
            Step([name |-> "DELETE /courses/{course_id}/quizzes/{question_id}",
                  course_id |-> c, question_id |-> q],
                 delete_quiz_question(db, c, q), NoEvent)

Http_attempt_quiz ==
    /\ op = Waiting
    /\ \E c \in CourseIds, a \in AnswerLists :
            Step([name |-> "POST /courses/{course_id}/quizzes/attempt",
                  course_id |-> c, answers |-> a], attempt_quiz(db, c, a), NoEvent)

Http_read_progress ==
    /\ op = Waiting
    /\ \E c \in CourseIds, u \in Users :
            LET r == read_progress(db, c, u)
            IN  Step([name |-> "GET /courses/{course_id}/progress/{user_id}",
                      course_id |-> c, user_id |-> u], r, IfOk(r, Read(u, c)))

Http_update_progress ==
    /\ op = Waiting
    /\ \E c \in CourseIds, u \in Users, m \in ModuleIds :
            LET r == update_progress(db, c, u, m)
            IN  Step([name |-> "POST /courses/{course_id}/progress/{user_id}",
                      course_id |-> c, user_id |-> u, module_id |-> m], r,
                     IfOk(r, Completion(u, c, m)))

NextHttp ==
    \/ Http_health
    \/ Http_list_courses
    \/ Http_create_course
    \/ Http_get_course
    \/ Http_update_course
    \/ Http_delete_course
    \/ Http_list_modules
    \/ Http_create_module
    \/ Http_get_module
    \/ Http_update_module
    \/ Http_delete_module
    \/ Http_list_quiz_questions
    \/ Http_create_quiz_question
    \/ Http_update_quiz_question
    \/ Http_delete_quiz_question
    \/ Http_attempt_quiz
    \/ Http_read_progress
    \/ Http_update_progress
    \/ Return

\* HTTP requests to the app
SpecHttp == InitLong /\ [][NextHttp]_vars

(* ============================== claims ================================ *)
Entities(s) == {s[i] : i \in 1 .. Len(s)}

Counters(d) == <<d.course_counter, d.module_counter, d.question_counter>>

Completed_ids(d, k) == d.progress_records[k].completed_module_ids

DuplicateFree(s) == \A i, j \in 1 .. Len(s) : s[i] = s[j] => i = j

\* every record of f other than those keyed in ks is in g, unchanged
OthersKept(f, g, ks) ==
    \A k \in (DOMAIN f) \ ks : k \in DOMAIN g /\ g[k] = f[k]

(* C1: after delete_course(C) of an existing course C, no Course, Module,  *)
(* QuizQuestion or progress record of C is left, everything that belongs   *)
(* to another course id is present and unchanged, and the counters are     *)
(* unchanged.                                                              *)
C1_CascadeCompleteness ==
    (op.name = "db.delete_course" /\ op.course_id \in Keys(pre.courses)) =>
        LET C == op.course_id
        IN  /\ C \notin Keys(db.courses)
            /\ \A m \in Entities(db.modules) : m.course_id # C
            /\ \A q \in Entities(db.quiz_questions) : q.course_id # C
            /\ \A k \in DOMAIN db.progress_records : k[2] # C
            /\ Entities(db.courses) = {c \in Entities(pre.courses) : c.id # C}
            /\ Entities(db.modules) =
                   {m \in Entities(pre.modules) : m.course_id # C}
            /\ Entities(db.quiz_questions) =
                   {q \in Entities(pre.quiz_questions) : q.course_id # C}
            /\ DOMAIN db.progress_records \subseteq DOMAIN pre.progress_records
            /\ OthersKept(pre.progress_records, db.progress_records,
                          {k \in DOMAIN pre.progress_records : k[2] = C})
            /\ Counters(db) = Counters(pre)

\* a course with modules, questions and progress is deleted while another
\* course id has a module
C1_Witness ==
    /\ op.name = "db.delete_course"
    /\ op.course_id \in Keys(pre.courses)
    /\ \E m \in Entities(pre.modules) : m.course_id = op.course_id
    /\ \E q \in Entities(pre.quiz_questions) : q.course_id = op.course_id
    /\ \E k \in DOMAIN pre.progress_records : k[2] = op.course_id
    /\ db.modules # <<>>

(* C2: for each entity type the k-th creation returns id k (so no id is    *)
(* assigned twice, deletions in between or not), and a creation of one     *)
(* type leaves the counters and the ids of the other types alone.          *)
IdsOf(d) ==
    [course |-> Keys(d.courses), module |-> Keys(d.modules),
     question |-> Keys(d.quiz_questions)]

CounterOf(d) ==
    [course |-> d.course_counter, module |-> d.module_counter,
     question |-> d.question_counter]

CreatedType ==
    CASE op.name = "db.create_course" -> "course"
      [] op.name = "db.create_module" -> "module"
      [] op.name = "db.create_quiz_question" -> "question"
      [] OTHER -> "none"

C2_IdentityMonotonicity ==
    /\ \A t \in DOMAIN created :
           \A k \in 1 .. Len(created[t]) : created[t][k] = k
    /\ \A t \in DOMAIN created :
           (CreatedType # "none" /\ CreatedType # t) =>
               /\ CounterOf(db)[t] = CounterOf(pre)[t]
               /\ IdsOf(db)[t] = IdsOf(pre)[t]

\* a third course is created after the second one was deleted
C2_Witness ==
    /\ op.name = "db.create_course"
    /\ Len(created.course) = 3
    /\ 2 \notin Keys(pre.courses)
    /\ ret.id = 3

(* C3: after delete_module(M) of an existing module M no progress record   *)
(* contains M, every record keeps its other completed ids in their order,  *)
(* no record is added or removed, and courses, quiz questions and the      *)
(* other modules are unchanged.                                            *)
C3_ModuleDeletionCleanup ==
    (op.name = "db.delete_module" /\ op.module_id \in Keys(pre.modules)) =>
        LET M == op.module_id
        IN  /\ \A k \in DOMAIN db.progress_records :
                   ~InList(M, Completed_ids(db, k))
            /\ DOMAIN db.progress_records = DOMAIN pre.progress_records
            /\ \A k \in DOMAIN pre.progress_records :
                   /\ Completed_ids(db, k) =
                          SelectSeq(Completed_ids(pre, k), LAMBDA x : x # M)
                   /\ db.progress_records[k].user_id =
                          pre.progress_records[k].user_id
                   /\ db.progress_records[k].course_id =
                          pre.progress_records[k].course_id
            /\ db.courses = pre.courses
            /\ db.quiz_questions = pre.quiz_questions
            /\ Entities(db.modules) = {m \in Entities(pre.modules) : m.id # M}

\* M is deleted while a record holds it first, before another id
C3_Witness ==
    /\ op.name = "db.delete_module"
    /\ op.module_id \in Keys(pre.modules)
    /\ \E k \in DOMAIN pre.progress_records :
           /\ Len(Completed_ids(pre, k)) >= 2
           /\ Completed_ids(pre, k)[1] = op.module_id
           /\ Completed_ids(db, k) # <<>>

(* C4 (as stated): record_module_completion(u, c, m) twice in a row leaves *)
(* the same completed_module_ids as once, and every progress record's list *)
(* is duplicate-free and in the order of the ids' first completion.        *)
Idempotent ==
    \A u \in Users, c \in CourseIds, m \in ModuleIds :
        LET once == db_record_module_completion(db, u, c, m).db
            twice == db_record_module_completion(once, u, c, m).db
        IN  /\ Completed_ids(twice, <<u, c>>) = Completed_ids(once, <<u, c>>)
            /\ InList(m, Completed_ids(once, <<u, c>>))

AllDuplicateFree ==
    \A k \in DOMAIN db.progress_records : DuplicateFree(Completed_ids(db, k))

C4_AsStated ==
    /\ Idempotent
    /\ AllDuplicateFree
    /\ \A k \in DOMAIN db.progress_records :
           /\ k \in DOMAIN first_done
           /\ Completed_ids(db, k) =
                  SelectSeq(first_done[k],
                            LAMBDA x : InList(x, Completed_ids(db, k)))

(* C4 (amended): idempotent and duplicate-free as stated; the list is in   *)
(* the order of each id's first completion since delete_module last        *)
(* removed that id (or since the record was created).                      *)
C4_ProgressIdempotence ==
    /\ Idempotent
    /\ AllDuplicateFree
    /\ DOMAIN since_done = DOMAIN db.progress_records
    /\ \A k \in DOMAIN db.progress_records :
           Completed_ids(db, k) = since_done[k]

\* a module already recorded is recorded again, in a record holding two ids
C4_Witness ==
    /\ op.name = "db.record_module_completion"
    /\ <<op.user_id, op.course_id>> \in DOMAIN pre.progress_records
    /\ InList(op.module_id, Completed_ids(pre, <<op.user_id, op.course_id>>))
    /\ Len(Completed_ids(db, <<op.user_id, op.course_id>>)) = 2

(* C5: get_progress(u, c) never fails; without a record for (u, c) it      *)
(* returns user_id u, course_id c and no completed ids, with a record it   *)
(* returns that record's completed ids; no other progress record, course,  *)
(* module, question or counter changes.                                    *)
C5_LazyProgressDefault ==
    (op.name = "db.get_progress") =>
        LET k == <<op.user_id, op.course_id>>
        IN  /\ DOMAIN ret = {"user_id", "course_id", "completed_module_ids"}
            /\ (k \notin DOMAIN pre.progress_records =>
                    ret = [user_id |-> op.user_id, course_id |-> op.course_id,
                           completed_module_ids |-> <<>>])
            /\ (k \in DOMAIN pre.progress_records =>
                    ret.completed_module_ids = Completed_ids(pre, k))
            /\ OthersKept(pre.progress_records, db.progress_records, {k})
            /\ DOMAIN db.progress_records \subseteq
                   (DOMAIN pre.progress_records) \cup {k}
            /\ db.courses = pre.courses
            /\ db.modules = pre.modules
            /\ db.quiz_questions = pre.quiz_questions
            /\ Counters(db) = Counters(pre)

\* an untouched pair is read while another pair has completed ids
C5_Witness ==
    /\ op.name = "db.get_progress"
    /\ <<op.user_id, op.course_id>> \notin DOMAIN pre.progress_records
    /\ ret.completed_module_ids = <<>>
    /\ \E k \in DOMAIN pre.progress_records : Completed_ids(pre, k) # <<>>

(* C9 (as stated): delete_course(id) with an id that is no key of the      *)
(* course map raises nothing and changes nothing.                          *)
C9_AsStated ==
    (op.name = "db.delete_course" /\ op.course_id \notin Keys(pre.courses)) =>
        ret = None /\ db = pre

(* C9 (amended): delete_course(id) with an id that is no key of the course *)
(* map raises nothing and leaves courses and counters unchanged; it still  *)
(* removes every module, quiz question and progress record whose course_id *)
(* is id and leaves the others unchanged, so it is a no-op exactly when    *)
(* nothing refers to id.                                                   *)
RefersTo(d, C) ==
    \/ \E m \in Entities(d.modules) : m.course_id = C
    \/ \E q \in Entities(d.quiz_questions) : q.course_id = C
    \/ \E k \in DOMAIN d.progress_records : k[2] = C

C9_DeleteAbsentCourse ==
    (op.name = "db.delete_course" /\ op.course_id \notin Keys(pre.courses)) =>
        LET C == op.course_id
        IN  /\ ret = None
            /\ db.courses = pre.courses
            /\ Counters(db) = Counters(pre)
            /\ Entities(db.modules) =
                   {m \in Entities(pre.modules) : m.course_id # C}
            /\ Entities(db.quiz_questions) =
                   {q \in Entities(pre.quiz_questions) : q.course_id # C}
            /\ DOMAIN db.progress_records =
                   {k \in DOMAIN pre.progress_records : k[2] # C}
            /\ OthersKept(pre.progress_records, db.progress_records,
                          {k \in DOMAIN pre.progress_records : k[2] = C})
            /\ (db = pre) <=> ~RefersTo(pre, C)

\* an absent course id is deleted while a module and a progress record
\* carry it
C9_Witness ==
    /\ op.name = "db.delete_course"
    /\ op.course_id \notin Keys(pre.courses)
    /\ \E m \in Entities(pre.modules) : m.course_id = op.course_id
    /\ \E k \in DOMAIN pre.progress_records : k[2] = op.course_id
    /\ db.modules # <<>>

(* C6: a create or update of a quiz question whose answer_index is not in  *)
(* 0 .. len(options)-1 gets a client error and changes nothing; one whose  *)
(* answer_index is in range (options of the schema's length, course and    *)
(* question found) is accepted; every stored QuizQuestion has              *)
(* 0 <= answer_index < len(options).                                       *)
IsQuestionWrite ==
    op.name \in {"POST /courses/{course_id}/quizzes",
                 "PUT /courses/{course_id}/quizzes/{question_id}"}

InRange(p) == 0 <= p.answer_index /\ p.answer_index < Len(p.options)

Addressed ==
    /\ op.course_id \in Keys(pre.courses)
    /\ op.name = "PUT /courses/{course_id}/quizzes/{question_id}" =>
           \E q \in Entities(pre.quiz_questions) :
               q.id = op.question_id /\ q.course_id = op.course_id

C6_AnswerIndexValidity ==
    /\ IsQuestionWrite =>
           /\ ~InRange(op.payload) =>
                  ret.status \in 400 .. 499 /\ db = pre
           /\ (InRange(op.payload) /\ Len(op.payload.options) >= 2
                   /\ Addressed) =>
                  /\ ret.status \in {200, 201}
                  /\ ret.body.answer_index = op.payload.answer_index
                  /\ ret.body.options = op.payload.options
                  /\ ret.body \in Entities(db.quiz_questions)
    /\ \A q \in Entities(db.quiz_questions) :
           0 <= q.answer_index /\ q.answer_index < Len(q.options)

\* answer_index = len(options) is refused for an existing course
C6_Witness ==
    /\ op.name = "POST /courses/{course_id}/quizzes"
    /\ op.course_id \in Keys(pre.courses)
    /\ op.payload.answer_index = Len(op.payload.options)
    /\ ret.status = 422
    /\ db = pre

(* C7: for an existing course with n > 0 questions (in creation order) and *)
(* n submitted answers, attempt_quiz returns total n, score the number of  *)
(* positions answered correctly and correct_question_ids the ids of those  *)
(* questions in question order; no questions or a length mismatch is a     *)
(* 400; the store is never modified.                                       *)
\* the j-th smallest element of a set of integers
Nth(S, j) == CHOOSE x \in S : Cardinality({y \in S : y < x}) = j - 1

\* the course's questions in creation order: ids grow with creation
InCreationOrder(d, C) ==
    LET own == {q \in Entities(d.quiz_questions) : q.course_id = C}
        ids == {q.id : q \in own}
    IN  [i \in 1 .. Cardinality(ids) |->
            CHOOSE q \in own : q.id = Nth(ids, i)]

C7_ScoringCorrectness ==
    (op.name = "POST /courses/{course_id}/quizzes/attempt") =>
        LET questions == InCreationOrder(pre, op.course_id)
            n == Len(questions)
            right == {i \in 1 .. n \cap DOMAIN op.answers :
                         op.answers[i] = questions[i].answer_index}
        IN  /\ db = pre
            /\ op.course_id \in Keys(pre.courses) =>
                   IF n = 0 \/ Len(op.answers) # n
                   THEN ret.status = 400
                   ELSE /\ ret.status = 200
                        /\ ret.body.total = n
                        /\ ret.body.score = Cardinality(right)
                        /\ ret.body.score = Len(ret.body.correct_question_ids)
                        /\ ret.body.correct_question_ids =
                               [j \in 1 .. Cardinality(right) |->
                                   questions[Nth(right, j)].id]

\* two questions, one created after a deletion and one updated since, the
\* second of them answered correctly
C7_Witness ==
    /\ op.name = "POST /courses/{course_id}/quizzes/attempt"
    /\ ret.status = 200
    /\ ret.body.total = 2
    /\ ret.body.correct_question_ids = <<3>>
    /\ \E q \in Entities(pre.quiz_questions) :
           /\ q.id < 3
           /\ q.course_id = op.course_id
           /\ q \notin Entities(Database.quiz_questions)

(* C8: a request that ends in a client error (400, 404, 422) leaves        *)
(* courses, modules, quiz questions, progress records and the three        *)
(* counters as they were.                                                  *)
C8_FailedRequestsChangeNothing ==
    (op # Waiting /\ ret.status \in 400 .. 499) => db = pre

\* progress is read for a course that does not exist
C8_Witness ==
    /\ op.name = "GET /courses/{course_id}/progress/{user_id}"
    /\ ret.status = 404
    /\ op.course_id \notin Keys(pre.courses)
    /\ <<op.user_id, op.course_id>> \notin DOMAIN db.progress_records

(* C10: under the HTTP handlers every Module and QuizQuestion belongs to   *)
(* an existing Course, every progress record is keyed by an existing       *)
(* Course, and every completed id is an existing Module of the record's    *)
(* course.                                                                 *)
C10_ReferentialIntegrity ==
    /\ \A m \in Entities(db.modules) : m.course_id \in Keys(db.courses)
    /\ \A q \in Entities(db.quiz_questions) : q.course_id \in Keys(db.courses)
    /\ \A k \in DOMAIN db.progress_records :
           /\ db.progress_records[k].course_id \in Keys(db.courses)
           /\ k[2] \in Keys(db.courses)
           /\ \A i \in 1 .. Len(Completed_ids(db, k)) :
                  \E m \in Entities(db.modules) :
                      /\ m.id = Completed_ids(db, k)[i]
                      /\ m.course_id = db.progress_records[k].course_id

\* a module recorded as completed is deleted while another stays completed
C10_Witness ==
    /\ op.name = "DELETE /courses/{course_id}/modules/{module_id}"
    /\ ret.status = 204
    /\ \E k \in DOMAIN pre.progress_records :
           /\ InList(op.module_id, Completed_ids(pre, k))
           /\ Completed_ids(db, k) # <<>>

====
